---- MODULE Spec2Model ----
(***************************************************************************)
(* A model of the Rufus crawler (rufus/client.py, rufus/utils.py).         *)
(*                                                                         *)
(* One RufusClient is constructed (Init), scrape() is called on it, and    *)
(* the recursive coroutine _crawl runs as a tree of asyncio tasks.  Every  *)
(* action is one stretch of code between two suspension points (await).    *)
(* Strings are sequences of one-character strings; similarities and        *)
(* thresholds are in hundredths (0.5 is 50).                               *)
(*                                                                         *)
(* run_pc and browser are the first scrape() call and the browser it       *)
(* launched; `second` is a second scrape() call on the same client;        *)
(* `returned` is the list each call handed to its caller; `response` is    *)
(* the HTTP status api_server.scrape_data answers with (0: none yet);      *)
(* `twin` is the record of a first crawl that a second crawl of the same   *)
(* configuration follows step by step.                                     *)
(***************************************************************************)
EXTENDS Integers, Sequences, FiniteSets, TLC

VARIABLES cfg, run_pc, browser, visited_urls, results, tasks, call,
          response, second, returned, twin

vars == <<cfg, run_pc, browser, visited_urls, results, tasks, call,
          response, second, returned, twin>>

crawl_vars == <<cfg, run_pc, browser, visited_urls, results, tasks,
                response, second, returned, twin>>

----------------------------------------------------------------------------
(* Bounds of the model *)

\* the largest max_depth a client is constructed with
MaxDepthBound == 2
\* the largest max_pages a client is constructed with
MaxPagesBound == 4
\* the number of pages of the crawled site
NumUrls == 4
\* the largest number of tokens of the instructions given to extract_keywords
MaxTokens == 4

----------------------------------------------------------------------------
(* Strings *)

Upper == <<"A", "F", "Q">>
LowerOf == <<"a", "f", "q">>

\* str.lower() on one character
LowerChar(c) ==
  IF \E i \in 1..Len(Upper) : Upper[i] = c
  THEN LowerOf[CHOOSE i \in 1..Len(Upper) : Upper[i] = c]
  ELSE c

\* str.lower()
Lower(s) == [i \in 1..Len(s) |-> LowerChar(s[i])]

Letters == {"a", "b", "d", "e", "f", "h", "i", "n", "q", "t", "A", "F", "Q"}

\* str.isalpha(): non-empty and every character a letter
IsAlpha(s) == Len(s) > 0 /\ \A i \in 1..Len(s) : s[i] \in Letters

\* Python's `needle in hay`, scanning the start positions from i on
RECURSIVE FindFrom(_, _, _)
FindFrom(needle, hay, i) ==
  IF i + Len(needle) - 1 > Len(hay) THEN FALSE
  ELSE IF SubSeq(hay, i, i + Len(needle) - 1) = needle THEN TRUE
  ELSE FindFrom(needle, hay, i + 1)

StrIn(needle, hay) == FindFrom(needle, hay, 1)

W_find == <<"f", "i", "n", "d">>
W_the == <<"t", "h", "e">>
W_faq == <<"f", "a", "q">>
W_FAQ == <<"F", "A", "Q">>
W_Faq == <<"F", "a", "q">>
\* a token that is not alphabetic
W_q1 == <<"q", "1">>

\* the part of nltk's English stop words the instructions use
StopWords == {W_the}

----------------------------------------------------------------------------
(* rufus/utils.py *)

NumKeywords == 5

\* number of occurrences of w in the token list
CountOf(w, toks) == Cardinality({i \in 1..Len(toks) : toks[i] = w})

\* index of the first occurrence of w
FirstOf(w, toks) == CHOOSE i \in 1..Len(toks) : toks[i] = w /\ \A j \in 1..(i - 1) : toks[j] # w

\* an order by descending count that puts equal counts in reverse order of
\* first occurrence
RankOfLatestFirst(w, toks) ==
  1 + Cardinality({i \in 1..Len(toks) :
        /\ i = FirstOf(toks[i], toks)
        /\ \/ CountOf(toks[i], toks) > CountOf(w, toks)
           \/ CountOf(toks[i], toks) = CountOf(w, toks) /\ i > FirstOf(w, toks)})

\* Counter.most_common: position of w in the order by descending count, equal
\* counts in first-occurrence order
RankOf(w, toks) ==
  1 + Cardinality({i \in 1..Len(toks) :
        /\ i = FirstOf(toks[i], toks)
        /\ \/ CountOf(toks[i], toks) > CountOf(w, toks)
           \/ CountOf(toks[i], toks) = CountOf(w, toks) /\ i < FirstOf(w, toks)})

\* extract_keywords(instructions, num_keywords); instructions is the token list
\* word_tokenize produces
extract_keywords(instructions, num_keywords) ==
  LET tokens == [i \in 1..Len(instructions) |-> Lower(instructions[i])]
      filtered_tokens == SelectSeq(tokens, LAMBDA w : IsAlpha(w) /\ w \notin StopWords)
      words == {filtered_tokens[i] : i \in 1..Len(filtered_tokens)}
      n == IF Cardinality(words) < num_keywords THEN Cardinality(words) ELSE num_keywords
  IN  [r \in 1..n |-> CHOOSE w \in words : RankOf(w, filtered_tokens) = r]

\* any(...) without the `if keywords:` test around it: False for an empty list
has_keywords_any(content, keywords) ==
  \E k \in 1..Len(keywords) : StrIn(Lower(keywords[k]), Lower(content))

\* any(keyword.lower() in content_lower for keyword in keywords)
has_keywords(content, keywords) ==
  IF Len(keywords) > 0
  THEN \E k \in 1..Len(keywords) : StrIn(Lower(keywords[k]), Lower(content))
  ELSE TRUE

\* the comparison written as similarity >= threshold
AtLeastThreshold(similarity, threshold) == similarity >= threshold

\* similarity > threshold
AboveThreshold(similarity, threshold) == similarity > threshold

\* compute_similarity whose except clause answers True
compute_similarity_fail_open(content, instructions, keywords, threshold, emb) ==
  IF ~emb.ok THEN TRUE
  ELSE AboveThreshold(emb.sim, threshold) /\ has_keywords(content, keywords)

\* compute_similarity; emb is what model.encode and cosine_similarity answer:
\* a similarity, or an exception (ok = FALSE)
compute_similarity(content, instructions, keywords, threshold, emb) ==
  IF ~emb.ok THEN FALSE
  ELSE AboveThreshold(emb.sim, threshold) /\ has_keywords(content, keywords)

----------------------------------------------------------------------------
(* The crawled site: what the renderer and BeautifulSoup answer *)

URLS == 1..NumUrls

\* scrape(base_url)
Seed == 1

\* the http(s) links of page u of the site "ring", a cyclic graph
RingLinks(u) == {(u % NumUrls) + 1, ((u + 1) % NumUrls) + 1}

\* the site "detour" has six pages: page 5 is two links from the seed through
\* page 2 and three links from it through pages 3 and 4, and page 6 is
\* linked from page 5 only
DetourLinks(u) ==
  CASE u = 1 -> {2, 3}
    [] u = 2 -> {5}
    [] u = 3 -> {4}
    [] u = 4 -> {5}
    [] u = 5 -> {6}
    [] OTHER -> {}

\* the http(s) links of page u of the crawled site
Links(u) == IF cfg.site = "detour" THEN DetourLinks(u) ELSE RingLinks(u)

\* the text of page u: a page naming the FAQ, a page without text, a page
\* with other text, a page naming the faq in lower case
PageText(u) ==
  IF u % 4 = 1 THEN <<"F", "A", "Q">>
  ELSE IF u % 4 = 2 THEN <<>>
  ELSE IF u % 4 = 3 THEN <<"a", "b">>
  ELSE <<"f", "a", "q">>

\* the cosine similarity of page u's text and the instructions: the fourth
\* kind of page is exactly at the usual threshold
PageSimilarity(u) == IF u % 4 = 0 THEN 50 ELSE 60

\* html is 0 for the empty string "" and the page's URL for its rendered HTML
EmptyHtml == 0

\* _extract_content(html)
ExtractContent(html) == IF html = EmptyHtml THEN <<>> ELSE PageText(html)

\* link extraction that fetches current_url's links whatever the HTML
ExtractLinksOfUrl(html, current_url) == Links(current_url)

\* _extract_links(html, current_url)
ExtractLinks(html, current_url) == IF html = EmptyHtml THEN {} ELSE Links(html)

\* what the embedding model answers for page u: its similarity, or a failure
EmbedOutcomes(u) == {[ok |-> FALSE, sim |-> 0], [ok |-> TRUE, sim |-> PageSimilarity(u)]}

----------------------------------------------------------------------------
(* RufusClient.__init__ *)

\* similarity_threshold: the default 0.5, and 1.1, which is out of range
ThresholdChoices == {50, 110}

\* (instructions, keywords): keywords None or [] with instructions that yield
\* keywords, None or [] with instructions that yield none, and given
ConstructorTexts ==
  {<<<<W_find, W_the, W_FAQ>>, <<>>>>, <<<<W_the>>, <<>>>>, <<<<W_the>>, <<W_Faq>>>>}

\* if not self.keywords: self.keywords = extract_keywords(self.instructions)
ResolveKeywords(keywords, instructions) ==
  IF Len(keywords) = 0 THEN extract_keywords(instructions, NumKeywords) ELSE keywords

\* no list was handed to a caller
NoList == [state |-> "none", value |-> <<>>]

\* the rest of the state once __init__ has returned: nothing was called yet
ClientConstructed ==
  /\ run_pc = "idle"
  /\ browser = "none"
  /\ visited_urls = {}
  /\ results = <<>>
  /\ tasks = <<>>
  /\ call = [fn |-> "none"]
  /\ response = 0
  /\ second = [pc |-> "idle", root |-> 0, browser |-> "none", overlap |-> FALSE]
  /\ returned = [c \in 1..2 |-> NoList]

\* no crawl is being followed
TwinOff == [phase |-> "off"]

Init ==
  /\ \E d \in -1..MaxDepthBound, p \in 0..MaxPagesBound, th \in ThresholdChoices,
        txt \in ConstructorTexts :
       \* the out-of-range threshold is tried with the small crawls only
       /\ th \in 0..100 \/ (d <= 1 /\ p <= 2)
       /\ cfg = [max_depth |-> d, max_pages |-> p, similarity_threshold |-> th,
                 instructions |-> txt[1],
                 keywords_arg |-> txt[2],
                 keywords |-> ResolveKeywords(txt[2], txt[1]),
                 site |-> "ring"]
  /\ ClientConstructed
  /\ twin = TwinOff

----------------------------------------------------------------------------
(* RufusClient._crawl: the entry checks *)

\* the depth check off by one
DepthExceededOffByOne(depth) == depth > cfg.max_depth + 1

\* if depth > self.max_depth: return
DepthExceeded(depth) == depth > cfg.max_depth

\* the visited check left out
VisitedCheckOmitted(url) == FALSE

\* if url in self.visited_urls: return
AlreadyVisited(url) == url \in visited_urls

\* the page check written with > instead of >=
PagesReachedOffByOne == Cardinality(visited_urls) > cfg.max_pages

\* if len(self.visited_urls) >= self.max_pages: return
PagesReached == Cardinality(visited_urls) >= cfg.max_pages

\* the check of the spawn loop written with > instead of >=
SpawnPagesReachedOffByOne == Cardinality(visited_urls) > cfg.max_pages

\* if len(self.visited_urls) >= self.max_pages: break
SpawnPagesReached == Cardinality(visited_urls) >= cfg.max_pages

\* children spawned two levels below their parent
ChildDepthTwo(depth) == depth + 2

\* the depth of the tasks a node at `depth` spawns
ChildDepth(depth) == depth + 1

\* a task that has not run yet
NewTask(url, depth, parent) ==
  [url |-> url, depth |-> depth, parent |-> parent, pc |-> "start",
   entered |-> FALSE, html |-> EmptyHtml, scored |-> "none", links |-> {},
   nav_failed |-> FALSE, spawned |-> 0, fault |-> "none", br |-> 0]

\* the browser self.browser refers to: the one launched last (1: by the first
\* scrape() call, 2: by the second, which is launched after the first)
SelfBrowser == IF second.browser # "none" THEN 2 ELSE 1

\* the state of browser b
BrowserState(b) == IF b = 2 THEN second.browser ELSE browser

\* lines 115-123: the branch ends without side effects
SkipsNode(url, depth) == DepthExceeded(depth) \/ AlreadyVisited(url) \/ PagesReached

\* the task after its first stretch: returned, or marked and awaiting
\* self._render_page(url), which opens its page in self.browser
EnteredTask(task) ==
  IF SkipsNode(task.url, task.depth)
  THEN [task EXCEPT !.pc = "done"]
  ELSE [task EXCEPT !.pc = "render", !.entered = TRUE, !.br = SelfBrowser]

\* self.visited_urls.add(url)
VisitedAfterEntry(task) ==
  IF SkipsNode(task.url, task.depth) THEN visited_urls ELSE visited_urls \cup {task.url}

Children(t) == {c \in DOMAIN tasks : tasks[c].parent = t}

----------------------------------------------------------------------------
(* RufusClient.scrape and RufusClient.run *)

\* a scrape() that keeps the visited set of the call before
VisitedKept == visited_urls

\* self.visited_urls = set()
FreshVisited == {}

\* self.results = []: a new list object
FreshResults == <<>>

\* scrape(): the state is reset and run() awaits the browser's launch
Scrape ==
  /\ run_pc = "idle"
  /\ visited_urls' = FreshVisited
  /\ results' = FreshResults
  /\ run_pc' = "launch"
  /\ UNCHANGED <<cfg, browser, tasks, call, response, second, returned, twin>>

\* the browser is launched and run() awaits self._crawl(base_url, depth=0),
\* which runs to its first suspension
Launch ==
  /\ run_pc = "launch"
  /\ browser' = "open"
  /\ run_pc' = "crawl"
  /\ tasks' = <<EnteredTask(NewTask(Seed, 0, 0))>>
  /\ visited_urls' = VisitedAfterEntry(NewTask(Seed, 0, 0))
  /\ UNCHANGED <<cfg, results, call, response, second, returned, twin>>

\* async_playwright() or chromium.launch raises: the renderer is unavailable
LaunchFails ==
  /\ run_pc = "launch"
  /\ run_pc' = "raised"
  /\ UNCHANGED <<cfg, browser, visited_urls, results, tasks, call, response, second, returned, twin>>

\* the root _crawl returned: await self.browser.close()
CloseBrowser ==
  /\ run_pc = "crawl"
  /\ tasks[1].pc = "done"
  /\ browser' = IF SelfBrowser = 1 THEN "closed" ELSE browser
  /\ second' = IF SelfBrowser = 2 THEN [second EXCEPT !.browser = "closed"] ELSE second
  /\ run_pc' = "close"
  /\ UNCHANGED <<cfg, visited_urls, results, tasks, call, response, returned, twin>>

\* the list self.results refers to, handed to a caller
LiveList == [state |-> "live", value |-> <<>>]

\* the async with block is left, which stops the Playwright of this call and
\* the browser it launched, and scrape() returns self.results: the caller
\* holds the list object itself
Return ==
  /\ run_pc = "close"
  /\ run_pc' = "returned"
  /\ browser' = "closed"
  /\ returned' = [returned EXCEPT ![1] = LiveList]
  /\ UNCHANGED <<cfg, visited_urls, results, tasks, call, response, second, twin>>

\* the root _crawl raised: the exception leaves the async with block, which
\* stops Playwright and its browser, and then leaves scrape()
RunRaises ==
  /\ run_pc = "crawl"
  /\ tasks[1].pc = "raised"
  /\ browser' = "closed"
  /\ run_pc' = "raised"
  /\ UNCHANGED <<cfg, visited_urls, results, tasks, call, response, second, returned, twin>>

\* the session of the specification's state machine
Session ==
  CASE run_pc = "idle" -> "INIT"
    [] run_pc = "returned" -> "DONE"
    [] run_pc \in {"raised", "cancelled"} -> "FAILED"
    [] OTHER -> "RUNNING"

----------------------------------------------------------------------------
(* A second scrape() call on the same client.  It is made once the first    *)
(* call has launched its browser or has ended; it overlaps the first call   *)
(* when that one has not ended.                                              *)

\* the list handed to a caller once self.results refers to a new list: the
\* caller's list keeps the content it had
DetachedList(list) ==
  IF list.state = "live" THEN [state |-> "kept", value |-> results] ELSE list

\* scrape(): the state is reset and run() awaits the browser's launch
Scrape2 ==
  /\ second.pc = "idle"
  /\ run_pc \in {"crawl", "close", "returned", "raised"}
  /\ visited_urls' = FreshVisited
  /\ results' = FreshResults
  /\ returned' = [c \in DOMAIN returned |-> DetachedList(returned[c])]
  /\ second' = [second EXCEPT !.pc = "launch", !.overlap = run_pc \in {"crawl", "close"}]
  /\ UNCHANGED <<cfg, run_pc, browser, tasks, call, response, twin>>

\* the root task of the second call: its page is opened in the browser just
\* launched
SecondRoot ==
  LET root == EnteredTask(NewTask(Seed, 0, 0))
  IN  IF root.entered THEN [root EXCEPT !.br = 2] ELSE root

\* self.browser refers to the browser launched for the second call, and
\* run() awaits self._crawl(base_url, depth=0)
Launch2 ==
  /\ second.pc = "launch"
  /\ second' = [second EXCEPT !.pc = "crawl", !.browser = "open", !.root = Len(tasks) + 1]
  /\ tasks' = Append(tasks, SecondRoot)
  /\ visited_urls' = VisitedAfterEntry(NewTask(Seed, 0, 0))
  /\ UNCHANGED <<cfg, run_pc, browser, results, call, response, returned, twin>>

LaunchFails2 ==
  /\ second.pc = "launch"
  /\ second' = [second EXCEPT !.pc = "raised"]
  /\ UNCHANGED <<cfg, run_pc, browser, visited_urls, results, tasks, call, response, returned, twin>>

\* the root _crawl of the second call returned: await self.browser.close()
CloseBrowser2 ==
  /\ second.pc = "crawl"
  /\ tasks[second.root].pc = "done"
  /\ second' = [second EXCEPT !.pc = "close", !.browser = "closed"]
  /\ UNCHANGED <<cfg, run_pc, browser, visited_urls, results, tasks, call, response, returned, twin>>

\* return self.results
Return2 ==
  /\ second.pc = "close"
  /\ second' = [second EXCEPT !.pc = "returned"]
  /\ returned' = [returned EXCEPT ![2] = LiveList]
  /\ UNCHANGED <<cfg, run_pc, browser, visited_urls, results, tasks, call, response, twin>>

\* the root _crawl of the second call raised
RunRaises2 ==
  /\ second.pc = "crawl"
  /\ tasks[second.root].pc = "raised"
  /\ second' = [second EXCEPT !.pc = "raised", !.browser = "closed"]
  /\ UNCHANGED <<cfg, run_pc, browser, visited_urls, results, tasks, call, response, returned, twin>>

----------------------------------------------------------------------------
(* api_server.py: POST /scrape, once the client it constructed has ended    *)
(* its scrape() call                                                         *)

\* the content of a list handed to a caller
ListValue(list) == IF list.state = "live" THEN results ELSE list.value

\* isinstance(exc, cls): HTTPException, ValueError, UnboundLocalError and
\* Playwright's Error all derive from Exception
IsInstance(exc, cls) == cls = exc \/ cls = "Exception"

\* lines 50-53: what the try block ends with: the exception of scrape(), the
\* HTTPException raised for an empty list, or the list returned
TryBlock ==
  IF run_pc = "raised"
  THEN [exc |-> IF tasks = <<>> THEN "Error" ELSE "UnboundLocalError", status |-> 0]
  ELSE IF Len(ListValue(returned[1])) = 0
  THEN [exc |-> "HTTPException", status |-> 404]
  ELSE [exc |-> "none", status |-> 200]

\* lines 54-57: the except clauses in their order; an HTTPException that
\* leaves the handler is answered with its status code
StatusOf(outcome) ==
  IF outcome.exc = "none" THEN outcome.status
  ELSE IF IsInstance(outcome.exc, "ValueError") THEN 400
  ELSE IF IsInstance(outcome.exc, "Exception") THEN 500
  ELSE outcome.status

\* scrape_data answers the request
Respond ==
  /\ run_pc \in {"returned", "raised"}
  /\ response = 0
  /\ response' = StatusOf(TryBlock)
  /\ UNCHANGED <<cfg, run_pc, browser, visited_urls, results, tasks, call, second, returned, twin>>

----------------------------------------------------------------------------
(* RufusClient._crawl, one action per stretch between suspension points.    *)
(* _render_page touches no state of the crawl between its own awaits, so     *)
(* the call is one step with its three outcomes.  The tasks of a gather run  *)
(* in any order.                                                             *)

\* the first stretch of a spawned task: the entry checks and the mark
CrawlEnter(t) ==
  /\ tasks[t].pc = "start"
  /\ tasks' = [tasks EXCEPT ![t] = EnteredTask(tasks[t])]
  /\ visited_urls' = VisitedAfterEntry(tasks[t])
  /\ UNCHANGED <<cfg, run_pc, browser, results, call, response, second, returned, twin>>

\* an exception leaves _render_page before html is bound: the except clause
\* of _crawl logs it and line 151 then reads the unbound html, which raises
\* UnboundLocalError out of _crawl
RaisedTask(task) == [task EXCEPT !.pc = "raised", !.fault = "own"]

\* _render_page raises: browser.new_page(), page.set_extra_http_headers() and
\* page.close() are outside its try block
RenderRaises(t) ==
  /\ tasks[t].pc = "render"
  /\ tasks' = [tasks EXCEPT ![t] = RaisedTask(tasks[t])]
  /\ UNCHANGED <<cfg, run_pc, browser, visited_urls, results, call, response, second, returned, twin>>

\* lines 133-139: whether the page is scored and what the scorer answers
IsRelevant(content, emb) ==
  /\ Len(content) > 0
  /\ compute_similarity(content, cfg.instructions, cfg.keywords,
                        cfg.similarity_threshold, emb)

Scored(content, emb) ==
  IF Len(content) = 0 THEN "none"
  ELSE IF ~emb.ok THEN "embed_fail"
  ELSE IF IsRelevant(content, emb) THEN "accepted"
  ELSE "rejected"

\* a node that extracts the links of the pages it accepted only
ProcessLinksIfRelevant(t, html, emb) ==
  LET content == ExtractContent(html) IN
  /\ results' = IF IsRelevant(content, emb)
                THEN Append(results, [url |-> tasks[t].url, content |-> content])
                ELSE results
  /\ tasks' = [tasks EXCEPT ![t].pc = "sleep",
                            ![t].html = html,
                            ![t].nav_failed = (html = EmptyHtml),
                            ![t].scored = Scored(content, emb),
                            ![t].links = IF IsRelevant(content, emb)
                                         THEN ExtractLinks(html, tasks[t].url)
                                         ELSE {}]

\* a node that puts its record at the head of results
ProcessPrepends(t, html, emb) ==
  LET content == ExtractContent(html) IN
  /\ results' = IF IsRelevant(content, emb)
                THEN <<[url |-> tasks[t].url, content |-> content]>> \o results
                ELSE results
  /\ tasks' = [tasks EXCEPT ![t].pc = "sleep",
                            ![t].html = html,
                            ![t].nav_failed = (html = EmptyHtml),
                            ![t].scored = Scored(content, emb),
                            ![t].links = ExtractLinks(html, tasks[t].url)]

\* lines 132-155, once _render_page has returned html: content extraction,
\* scoring, the append to results, link extraction, and the politeness delay
\* is awaited
Process(t, html, emb) ==
  LET content == ExtractContent(html) IN
  /\ results' = IF IsRelevant(content, emb)
                THEN Append(results, [url |-> tasks[t].url, content |-> content])
                ELSE results
  /\ tasks' = [tasks EXCEPT ![t].pc = "sleep",
                            ![t].html = html,
                            ![t].nav_failed = (html = EmptyHtml),
                            ![t].scored = Scored(content, emb),
                            ![t].links = ExtractLinks(html, tasks[t].url)]

\* page.goto, wait_for_load_state and page.content() answer the page's HTML,
\* page.close() returns, and the node is processed
RenderReturns(t) ==
  /\ tasks[t].pc = "render"
  /\ BrowserState(tasks[t].br) = "open"
  /\ \E emb \in EmbedOutcomes(tasks[t].url) : Process(t, tasks[t].url, emb)
  /\ UNCHANGED <<cfg, run_pc, browser, visited_urls, call, response, second, returned, twin>>

\* line 190: navigation fails or times out, html = ""
FailedHtml == EmptyHtml

\* navigation fails, page.close() returns, and the node is processed with the
\* empty HTML
RenderFails(t) ==
  /\ tasks[t].pc = "render"
  /\ \E emb \in EmbedOutcomes(tasks[t].url) : Process(t, FailedHtml, emb)
  /\ UNCHANGED <<cfg, run_pc, browser, visited_urls, call, response, second, returned, twin>>

\* list(links): the links in the order the spawn loop meets them
RECURSIVE LinkList(_)
LinkList(links) ==
  IF links = {} THEN <<>>
  ELSE LET m == CHOOSE x \in links : \A y \in links : x <= y
       IN  <<m>> \o LinkList(links \ {m})

\* a spawn loop without the page check: a task for every link
SpawnLoopUnchecked(links, i, t, spawned) ==
  [k \in 1..Len(links) |-> NewTask(links[k], tasks[t].depth + 1, t)]

\* a spawn loop that creates no more tasks than the budget has pages left
SpawnLoopToBudget(links, i, t, spawned) ==
  LET left == cfg.max_pages - Cardinality(visited_urls)
      n    == IF left <= 0 THEN 0 ELSE IF left < Len(links) THEN left ELSE Len(links)
  IN  [k \in 1..n |-> NewTask(links[k], ChildDepth(tasks[t].depth), t)]

\* lines 157-162: the spawn loop from the i-th link on; no coroutine runs
\* before gather, so the visited set is the same at every iteration
RECURSIVE SpawnLoop(_, _, _, _)
SpawnLoop(links, i, t, spawned) ==
  IF i > Len(links) THEN spawned
  ELSE IF SpawnPagesReached THEN spawned
  ELSE SpawnLoop(links, i + 1, t,
                 Append(spawned, NewTask(links[i], ChildDepth(tasks[t].depth), t)))

\* the delay is over: the spawn loop, then gather is awaited or _crawl returns
Spawn(t) ==
  /\ tasks[t].pc = "sleep"
  /\ LET spawned == SpawnLoop(LinkList(tasks[t].links), 1, t, <<>>) IN
       tasks' = [tasks EXCEPT ![t].pc = IF Len(spawned) > 0 THEN "gather" ELSE "done",
                              ![t].spawned = Len(spawned)] \o spawned
  /\ UNCHANGED <<cfg, run_pc, browser, visited_urls, results, call, response, second, returned, twin>>

\* a wait that ends with the first task done (asyncio.wait FIRST_COMPLETED)
GatherFirstCompleted(t) == \E c \in Children(t) : tasks[c].pc = "done"

\* a wait on every task of the crawl, the waiting one included
GatherAwaitsItself(t) == \A c \in DOMAIN tasks : tasks[c].pc = "done"

\* gather returns once every task given to it is done
GatherComplete(t) == \A c \in Children(t) : tasks[c].pc = "done"

GatherReturns(t) ==
  /\ tasks[t].pc = "gather"
  /\ GatherComplete(t)
  /\ tasks' = [tasks EXCEPT ![t].pc = "done"]
  /\ UNCHANGED <<cfg, run_pc, browser, visited_urls, results, call, response, second, returned, twin>>

\* gather (return_exceptions=False) raises the first exception of a child
\* into the awaiting _crawl; the other children keep running
GatherRaises(t) ==
  /\ tasks[t].pc = "gather"
  /\ \E c \in Children(t) : tasks[c].pc = "raised"
  /\ tasks' = [tasks EXCEPT ![t].pc = "raised", ![t].fault = "child"]
  /\ UNCHANGED <<cfg, run_pc, browser, visited_urls, results, call, response, second, returned, twin>>

----------------------------------------------------------------------------
(* The crawl *)

Next ==
  \/ Scrape
  \/ Launch
  \/ LaunchFails
  \/ CloseBrowser
  \/ Return
  \/ RunRaises
  \/ Respond
  \/ \E t \in DOMAIN tasks : CrawlEnter(t)
  \/ \E t \in DOMAIN tasks : RenderReturns(t)
  \/ \E t \in DOMAIN tasks : RenderFails(t)
  \/ \E t \in DOMAIN tasks : RenderRaises(t)
  \/ \E t \in DOMAIN tasks : Spawn(t)
  \/ \E t \in DOMAIN tasks : GatherReturns(t)
  \/ \E t \in DOMAIN tasks : GatherRaises(t)

Spec == Init /\ [][Next]_vars

\* the event loop runs every ready task and every awaited call answers
InitLive ==
  /\ Init
  /\ cfg.similarity_threshold = 50
  /\ cfg.keywords = <<W_Faq>>

SpecLive == InitLive /\ [][Next]_vars /\ WF_vars(Next)

----------------------------------------------------------------------------
(* Two scrape() calls on one client *)

InitCalls ==
  /\ InitLive
  /\ cfg.max_depth \in 0..1
  /\ cfg.max_pages \in 1..2

NextCalls ==
  \/ Next
  \/ Scrape2
  \/ Launch2
  \/ LaunchFails2
  \/ CloseBrowser2
  \/ Return2
  \/ RunRaises2

SpecCalls == InitCalls /\ [][NextCalls]_vars

----------------------------------------------------------------------------
(* A crawl whose caller cancels the task that awaits scrape(), as            *)
(* asyncio.wait_for does at its timeout.  scrape(), run() and _crawl have no *)
(* try/finally and no except clause for CancelledError, which is a           *)
(* BaseException and passes `except Exception`.                              *)

\* task t is awaited, through gathers, by the root _crawl that run() awaits
RECURSIVE Awaited(_)
Awaited(t) ==
  \/ t = 1
  \/ /\ tasks[t].parent # 0
     /\ tasks[tasks[t].parent].pc = "gather"
     /\ Awaited(tasks[t].parent)

\* the task once CancelledError was thrown into it
CancelledTask(task) ==
  IF task.pc \in {"done", "raised"} THEN task ELSE [task EXCEPT !.pc = "cancelled"]

\* the caller cancels: CancelledError is thrown at the await run() is
\* suspended at; a gather that is cancelled cancels the tasks given to it;
\* the error leaves the async with block, which stops Playwright and its
\* browser, and then leaves scrape()
Cancel ==
  /\ run_pc \in {"launch", "crawl", "close"}
  /\ run_pc' = "cancelled"
  /\ browser' = IF browser = "none" THEN "none" ELSE "closed"
  /\ tasks' = [t \in DOMAIN tasks |->
                IF Awaited(t) THEN CancelledTask(tasks[t]) ELSE tasks[t]]
  /\ UNCHANGED <<cfg, visited_urls, results, call, response, second, returned, twin>>

NextCancel == Next \/ Cancel

SpecCancel == InitLive /\ [][NextCancel]_vars

----------------------------------------------------------------------------
(* A crawl of the site "detour" as the event loop times it when no render   *)
(* is faster than the politeness delay.  gather schedules the first step of *)
(* each task it is given with call_soon, so these steps run, in the next    *)
(* pass of the loop, before the callback of any render or delay that        *)
(* completes later; and the one-second delay of a node is over before a     *)
(* render that was pending when it began completes.                         *)

\* max_depth, and a max_pages above the six pages of the site
DetourDepths == {2, 3}
DetourPages == 7

InitDetour ==
  /\ \E d \in DetourDepths, txt \in ConstructorTexts :
       cfg = [max_depth |-> d, max_pages |-> DetourPages, similarity_threshold |-> 50,
              instructions |-> txt[1],
              keywords_arg |-> txt[2],
              keywords |-> ResolveKeywords(txt[2], txt[1]),
              site |-> "detour"]
  /\ ClientConstructed
  /\ twin = TwinOff

NoTaskAtStart == \A t \in DOMAIN tasks : tasks[t].pc # "start"

\* no first step is scheduled and no delay is awaited
Settled == \A t \in DOMAIN tasks : tasks[t].pc \notin {"start", "sleep"}

\* a spawned task runs its first stretch before any other step is taken, and
\* a node that awaits its delay runs its spawn loop before any render ends
NextPaced ==
  \/ \E t \in DOMAIN tasks : CrawlEnter(t)
  \/ NoTaskAtStart /\ \E t \in DOMAIN tasks : Spawn(t)
  \/ Settled /\ Scrape
  \/ Settled /\ Launch
  \/ Settled /\ LaunchFails
  \/ Settled /\ CloseBrowser
  \/ Settled /\ Return
  \/ Settled /\ RunRaises
  \/ Settled /\ Respond
  \/ Settled /\ \E t \in DOMAIN tasks : RenderReturns(t)
  \/ Settled /\ \E t \in DOMAIN tasks : RenderFails(t)
  \/ Settled /\ \E t \in DOMAIN tasks : RenderRaises(t)
  \/ Settled /\ \E t \in DOMAIN tasks : GatherReturns(t)
  \/ Settled /\ \E t \in DOMAIN tasks : GatherRaises(t)

SpecDetour == InitDetour /\ [][NextPaced]_vars

----------------------------------------------------------------------------
(* Two crawls of one configuration.  The first crawl runs and each of its    *)
(* steps is recorded; a new client with the same configuration then crawls   *)
(* the same site, and its crawl is followed as long as the same task takes   *)
(* each step with the same outcome of the launch and of the render.  What    *)
(* the scorer answers is free in both crawls.                                *)

\* the crawl without what depends on the scorer's answers by design: the
\* result list and the score of each node
Observed ==
  [run_pc |-> run_pc, browser |-> browser, visited_urls |-> visited_urls,
   tasks |-> [t \in DOMAIN tasks |-> [tasks[t] EXCEPT !.scored = "none"]]]

\* which task took the step from prev to cur (0: scrape() or run() itself),
\* and what the launch or the render answered
StepLabel(prev, cur) ==
  LET changed == {t \in DOMAIN prev.tasks : prev.tasks[t] # cur.tasks[t]}
      who == IF changed = {} THEN 0 ELSE CHOOSE t \in changed : TRUE
  IN  IF who = 0
      THEN [who |-> 0, launched |-> cur.browser # "none", html |-> EmptyHtml, raised |-> FALSE]
      ELSE [who |-> who, launched |-> TRUE,
            html |-> cur.tasks[who].html,
            raised |-> prev.tasks[who].pc = "render" /\ cur.tasks[who].pc = "raised"]

TwinDepths == {1}
TwinPages == {2, 3}

InitTwin ==
  /\ \E d \in TwinDepths, p \in TwinPages :
       cfg = [max_depth |-> d, max_pages |-> p, similarity_threshold |-> 50,
              instructions |-> <<W_the>>, keywords_arg |-> <<W_Faq>>,
              keywords |-> <<W_Faq>>, site |-> "ring"]
  /\ ClientConstructed
  /\ twin = [phase |-> "first", log |-> <<Observed>>, k |-> 1, last |-> Observed,
             results |-> <<>>]

\* a step of the first crawl is recorded
Record ==
  /\ twin.phase = "first"
  /\ Observed # twin.last
  /\ twin' = [twin EXCEPT !.log = Append(twin.log, Observed), !.last = Observed]
  /\ UNCHANGED <<cfg, run_pc, browser, visited_urls, results, tasks, call, response, second, returned>>

\* the first crawl is over: a new client is constructed with the same
\* configuration
Restart ==
  /\ twin.phase = "first"
  /\ Observed = twin.last
  /\ run_pc \in {"returned", "raised"}
  /\ \A t \in DOMAIN tasks : tasks[t].pc \in {"done", "raised"}
  /\ twin' = [twin EXCEPT !.phase = "second", !.last = twin.log[1], !.results = results]
  /\ run_pc' = "idle"
  /\ browser' = "none"
  /\ visited_urls' = {}
  /\ results' = <<>>
  /\ tasks' = <<>>
  /\ response' = 0
  /\ returned' = [c \in 1..2 |-> NoList]
  /\ UNCHANGED <<cfg, call, second>>

\* the second crawl took the step the first crawl took at this place
Follow ==
  /\ twin.phase = "second"
  /\ Observed # twin.last
  /\ twin.k < Len(twin.log)
  /\ StepLabel(twin.last, Observed) = StepLabel(twin.log[twin.k], twin.log[twin.k + 1])
  /\ twin' = [twin EXCEPT !.k = twin.k + 1, !.last = Observed]
  /\ UNCHANGED <<cfg, run_pc, browser, visited_urls, results, tasks, call, response, second, returned>>

\* the second crawl took another step: it is followed no further
Stray ==
  /\ twin.phase = "second"
  /\ Observed # twin.last
  /\ \/ twin.k >= Len(twin.log)
     \/ StepLabel(twin.last, Observed) # StepLabel(twin.log[twin.k], twin.log[twin.k + 1])
  /\ twin' = [twin EXCEPT !.phase = "strayed"]
  /\ UNCHANGED <<cfg, run_pc, browser, visited_urls, results, tasks, call, response, second, returned>>

\* the step before was recorded or followed
InStep == twin.phase \in {"first", "second"} /\ Observed = twin.last

\* a crawl takes a step once the step before it was recorded or followed
NextTwin ==
  \/ Record
  \/ Restart
  \/ Follow
  \/ Stray
  \/ InStep /\ Scrape
  \/ InStep /\ Launch
  \/ InStep /\ LaunchFails
  \/ InStep /\ CloseBrowser
  \/ InStep /\ Return
  \/ InStep /\ RunRaises
  \/ InStep /\ Respond
  \/ InStep /\ \E t \in DOMAIN tasks : CrawlEnter(t)
  \/ InStep /\ \E t \in DOMAIN tasks : RenderReturns(t)
  \/ InStep /\ \E t \in DOMAIN tasks : RenderFails(t)
  \/ InStep /\ \E t \in DOMAIN tasks : RenderRaises(t)
  \/ InStep /\ \E t \in DOMAIN tasks : Spawn(t)
  \/ InStep /\ \E t \in DOMAIN tasks : GatherReturns(t)
  \/ InStep /\ \E t \in DOMAIN tasks : GatherRaises(t)

SpecTwin == InitTwin /\ [][NextTwin]_vars

----------------------------------------------------------------------------
(* compute_similarity on its own: one call per step, inputs from small sets *)

SimContents ==
  {<<"F", "A", "Q">>, <<"a", "f", "A", "q", "b">>, <<"f", "a">>, <<"a", "b">>,
   <<"f", "b", "a", "q">>, <<"q", "a", "f">>}
SimKeywords ==
  {<<>>, <<W_Faq>>, <<W_find, W_faq>>, <<W_find>>, <<<<"b">>, W_FAQ>>, <<<<>>>>}
SimThresholds == {0, 30, 50, 100}
SimEmbeddings ==
  {[ok |-> FALSE, sim |-> 0]} \cup {[ok |-> TRUE, sim |-> s] : s \in {-20, 30, 50, 51, 100}}

InitSim ==
  /\ cfg = [max_depth |-> 0, max_pages |-> 1, similarity_threshold |-> 50,
            instructions |-> <<W_the>>, keywords_arg |-> <<W_Faq>>,
            keywords |-> <<W_Faq>>, site |-> "ring"]
  /\ ClientConstructed
  /\ twin = TwinOff

ComputeSimilarityCall ==
  /\ \E content \in SimContents, keywords \in SimKeywords,
        threshold \in SimThresholds, emb \in SimEmbeddings :
       call' = [fn |-> "compute_similarity", content |-> content,
                keywords |-> keywords, threshold |-> threshold, emb |-> emb,
                ret |-> compute_similarity(content, cfg.instructions, keywords,
                                           threshold, emb)]
  /\ UNCHANGED crawl_vars

SpecSim == InitSim /\ [][ComputeSimilarityCall]_vars

----------------------------------------------------------------------------
(* extract_keywords on its own: the constructed client's first call *)

KwVocabulary == {W_find, W_the, W_faq, W_FAQ, W_q1}

\* the token lists of at most MaxTokens tokens
KwInstructions == UNION {[1..n -> KwVocabulary] : n \in 0..MaxTokens}

KwCounts == {0, 1, 2, NumKeywords}

\* extract_keywords(instructions, k); when word_tokenize or stopwords.words
\* raises (tokenizer_ok = FALSE) the except clause returns []
ExtractKeywordsCall ==
  /\ call.fn = "none"
  /\ \E instructions \in KwInstructions, k \in KwCounts, tokenizer_ok \in BOOLEAN :
       call' = [fn |-> "extract_keywords", instructions |-> instructions, k |-> k,
                tokenizer_ok |-> tokenizer_ok,
                ret |-> IF tokenizer_ok THEN extract_keywords(instructions, k) ELSE <<>>]
  /\ UNCHANGED crawl_vars

SpecKw == InitSim /\ [][ExtractKeywordsCall]_vars

----------------------------------------------------------------------------
(* Properties *)

Entered == {t \in DOMAIN tasks : tasks[t].entered}

ResultUrls == {results[i].url : i \in DOMAIN results}

\* C1: in every state of a crawl with max_pages >= 1,
\* len(results) <= len(visited_urls) <= max_pages
C1_ResultsVisitedBudget ==
  cfg.max_pages >= 1 =>
    /\ Len(results) <= Cardinality(visited_urls)
    /\ Cardinality(visited_urls) <= cfg.max_pages

\* the budget is spent, every visited page was accepted, and a sibling task
\* has still to run its entry checks
C1_Witness ==
  /\ cfg.max_pages >= 2
  /\ Cardinality(visited_urls) = cfg.max_pages
  /\ Len(results) = cfg.max_pages
  /\ \E t \in DOMAIN tasks : tasks[t].pc = "start"

\* C2: a URL is in the visited set from the moment a task proceeds past the
\* entry checks (so before its render is issued), no two tasks proceed for the
\* same URL, and no URL is twice in results
C2_DedupUnderRace ==
  /\ \A t \in Entered : tasks[t].url \in visited_urls
  /\ \A t1, t2 \in Entered : tasks[t1].url = tasks[t2].url => t1 = t2
  /\ \A i, j \in DOMAIN results : results[i].url = results[j].url => i = j

\* two tasks of the same depth, spawned by different parents for the same
\* URL: one proceeded and was scored, the other returned at the visited check
C2_Witness ==
  \E t1, t2 \in DOMAIN tasks :
    /\ tasks[t1].url = tasks[t2].url
    /\ tasks[t1].depth = tasks[t2].depth
    /\ tasks[t1].parent # tasks[t2].parent
    /\ tasks[t1].entered /\ tasks[t1].pc = "done"
    /\ ~tasks[t2].entered /\ tasks[t2].pc = "done"
    /\ tasks[t1].scored = "rejected"

\* C3: a task that marked its URL visited has depth <= max_depth, the seed's
\* task has depth 0 and every other task its parent's depth + 1, and every
\* visited URL was marked by such a task
C3_DepthBound ==
  /\ \A t \in DOMAIN tasks :
       /\ tasks[t].entered => tasks[t].depth <= cfg.max_depth
       /\ tasks[t].parent = 0 => tasks[t].depth = 0 /\ tasks[t].url = Seed
       /\ tasks[t].parent # 0 => tasks[t].depth = tasks[tasks[t].parent].depth + 1
  /\ \A u \in visited_urls :
       \E t \in Entered : tasks[t].url = u /\ tasks[t].depth <= cfg.max_depth

\* a task below max_depth for a URL never visited, with budget left, returned
\* at its entry checks
C3_Witness ==
  \E t \in DOMAIN tasks :
    /\ tasks[t].depth = cfg.max_depth + 1
    /\ tasks[t].depth >= 2
    /\ tasks[t].pc = "done" /\ ~tasks[t].entered
    /\ tasks[t].url \notin visited_urls
    /\ Cardinality(visited_urls) < cfg.max_pages
    /\ run_pc = "returned"

\* C4 as stated: an exception raised while processing a node does not end
\* the processing of its ancestors: a task that raises does so for its own
\* node, never because a task it spawned raised
C4_NodeExceptionContained ==
  \A t \in DOMAIN tasks : tasks[t].pc = "raised" => tasks[t].fault = "own"

\* C5: a node whose navigation failed stays visited, has the empty HTML, is
\* not scored, is not in results, has no links and spawns no task
C5_RenderFailureIsEmpty ==
  \A t \in DOMAIN tasks :
    tasks[t].nav_failed =>
      /\ tasks[t].url \in visited_urls
      /\ tasks[t].html = EmptyHtml
      /\ tasks[t].scored = "none"
      /\ tasks[t].url \notin ResultUrls
      /\ tasks[t].links = {}
      /\ tasks[t].spawned = 0 /\ Children(t) = {}
      /\ tasks[t].fault # "child"

\* a node at depth 2 failed to navigate and returned, its sibling was
\* accepted, and scrape() returned
C5_Witness ==
  \E t, s \in DOMAIN tasks :
    /\ tasks[t].nav_failed /\ tasks[t].pc = "done" /\ tasks[t].depth = 2
    /\ s # t /\ tasks[s].parent = tasks[t].parent
    /\ tasks[s].scored = "accepted"
    /\ run_pc = "returned"
    /\ Len(results) >= 2

\* the pairs (upper-case letter, lower-case letter)
CasePairs == {<<"A", "a">>, <<"F", "f">>, <<"Q", "q">>}

SameLetter(a, b) == a = b \/ <<a, b>> \in CasePairs \/ <<b, a>> \in CasePairs

\* keyword occurs in content at some position, letter case aside
OccursIgnoringCase(keyword, content) ==
  \E off \in 0..(Len(content) - Len(keyword)) :
    \A j \in 1..Len(keyword) : SameLetter(keyword[j], content[off + j])

\* C6: when the embeddings are obtained, compute_similarity answers True
\* exactly when the similarity is strictly above the threshold and the keyword
\* list is empty or one of its keywords occurs in the content, case aside
C6_RelevanceGate ==
  (call.fn = "compute_similarity" /\ call.emb.ok) =>
    (call.ret <=>
       /\ call.emb.sim > call.threshold
       /\ \/ call.keywords = <<>>
          \/ \E k \in DOMAIN call.keywords :
               OccursIgnoringCase(call.keywords[k], call.content))

\* a page above the threshold, keywords given, none of them in the content:
\* rejected
C6_Witness ==
  /\ call.fn = "compute_similarity"
  /\ call.emb.ok /\ call.emb.sim > call.threshold
  /\ call.keywords # <<>>
  /\ call.content = <<"f", "b", "a", "q">>
  /\ call.ret = FALSE

\* C7: a page whose embeddings could not be obtained is not in results, the
\* node does not raise, its links are those of the page, and it spawned a task
\* for each of them unless the page budget was spent
C7_EmbeddingFailureSkipsPage ==
  \A t \in DOMAIN tasks :
    tasks[t].scored = "embed_fail" =>
      /\ tasks[t].url \notin ResultUrls
      /\ tasks[t].fault # "own"
      /\ tasks[t].pc \in {"sleep", "gather", "done", "raised"}
      /\ tasks[t].links = Links(tasks[t].url)
      /\ tasks[t].pc # "sleep" =>
           \/ tasks[t].spawned = Cardinality(tasks[t].links)
           \/ tasks[t].spawned = 0 /\ Cardinality(visited_urls) >= cfg.max_pages

\* the seed's embeddings failed, its two links were expanded, one of them was
\* accepted, and scrape() returned
C7_Witness ==
  /\ run_pc = "returned"
  /\ tasks[1].scored = "embed_fail"
  /\ tasks[1].spawned = 2
  /\ \A c \in Children(1) : tasks[c].entered
  /\ Len(results) >= 1

InvalidConfig ==
  \/ cfg.max_depth < 0
  \/ cfg.max_pages < 1
  \/ cfg.similarity_threshold < 0
  \/ cfg.similarity_threshold > 100

\* C8 as stated: with max_depth < 0, max_pages < 1 or a threshold outside
\* [0, 1] the browser is never launched, no URL is visited and scrape()
\* does not return a result
C8_InvalidConfigFailsFast ==
  InvalidConfig =>
    /\ browser = "none"
    /\ visited_urls = {}
    /\ run_pc # "returned"

\* some awaited call raised instead of returning
CallRaised ==
  \/ run_pc = "raised"
  \/ \E t \in DOMAIN tasks : tasks[t].pc = "raised"

\* C9: when every awaited call returns, scrape() eventually returns
C9_CrawlTerminates == <>(run_pc = "returned" \/ CallRaised)

\* scrape() returned from a crawl of the cyclic site that met the seed again
\* two links below it
C9_Witness ==
  /\ run_pc = "returned"
  /\ \E t \in DOMAIN tasks :
       tasks[t].url = Seed /\ tasks[t].depth = 2 /\ tasks[t].pc = "done"
  /\ Cardinality(visited_urls) >= 3

\* C10: when the session is DONE the browser is closed and every task is
\* done, as it is already when the browser is being closed, and a task is
\* done only when every task it spawned is done
C10_DoneAfterAllDescendants ==
  /\ Session = "DONE" => browser = "closed" /\ \A t \in DOMAIN tasks : tasks[t].pc = "done"
  /\ run_pc = "close" => \A t \in DOMAIN tasks : tasks[t].pc = "done"
  /\ \A t \in DOMAIN tasks :
       tasks[t].pc = "done" => \A c \in Children(t) : tasks[c].pc = "done"

\* scrape() returned after a crawl that went two links deep
C10_Witness ==
  /\ Session = "DONE"
  /\ Len(tasks) >= 5
  /\ \E t \in Entered : tasks[t].depth = 2

\* the tasks a step appended to the task list
NewTasks == Len(tasks') - Len(tasks)

\* task t leaves the politeness delay in this step: its spawn loop runs
RunsSpawnLoop(t) == tasks[t].pc = "sleep" /\ tasks'[t].pc # "sleep"

\* C11: with max_pages = 1 only the seed is ever marked and rendered and no
\* task is spawned; and whatever max_pages is, a node whose spawn loop starts
\* with len(visited_urls) = max_pages spawns no task and returns
C11_BudgetOneRendersSeedOnly ==
  /\ [](cfg.max_pages = 1 =>
         /\ Len(tasks) <= 1
         /\ visited_urls \subseteq {Seed}
         /\ \A t \in Entered : tasks[t].url = Seed /\ tasks[t].spawned = 0)
  /\ [][\A t \in DOMAIN tasks :
          (RunsSpawnLoop(t) /\ Cardinality(visited_urls) = cfg.max_pages) =>
            NewTasks = 0 /\ tasks'[t].pc = "done" /\ tasks'[t].spawned = 0]_vars

\* max_pages = 1, the seed was rendered and accepted, its two links were
\* extracted, no task was spawned, and scrape() returned
C11_Witness ==
  /\ cfg.max_pages = 1 /\ cfg.max_depth >= 1
  /\ run_pc = "returned"
  /\ Len(tasks) = 1
  /\ Cardinality(tasks[1].links) = 2
  /\ tasks[1].spawned = 0
  /\ ResultUrls = {Seed}

\* C16: the tasks a spawn loop creates are for the first links of the list,
\* in its order; a task is created only if the page check before it found
\* the budget not reached; once it is reached no task is created, whatever
\* links remain
C16_BudgetCheckedBeforeEachSpawn ==
  [][\A t \in DOMAIN tasks :
       RunsSpawnLoop(t) =>
         /\ NewTasks <= Cardinality(tasks[t].links)
         /\ \A k \in 1..NewTasks :
              /\ tasks'[Len(tasks) + k].url = LinkList(tasks[t].links)[k]
              /\ tasks'[Len(tasks) + k].parent = t
              /\ Cardinality(visited_urls) < cfg.max_pages
         /\ Cardinality(visited_urls) >= cfg.max_pages => NewTasks = 0]_vars

\* a node below max_depth extracted links, found the budget of two or more
\* pages spent at its spawn loop, and returned without spawning
C16_Witness ==
  \E t \in Entered :
    /\ cfg.max_pages >= 2
    /\ tasks[t].depth < cfg.max_depth
    /\ tasks[t].links # {}
    /\ tasks[t].pc = "done"
    /\ tasks[t].spawned = 0
    /\ Cardinality(visited_urls) = cfg.max_pages

\* C12 as stated: a crawl of a valid configuration that returned an empty
\* result list is answered with 404
C12_EmptyCrawlAnswersNotFound ==
  (~InvalidConfig /\ response # 0 /\ run_pc = "returned" /\ results = <<>>) =>
    response = 404

\* task t rendered its page, the page has text, its embeddings were obtained
\* and its similarity is above the threshold
RenderedAboveThreshold(t) ==
  /\ tasks[t].html # EmptyHtml
  /\ Len(ExtractContent(tasks[t].html)) > 0
  /\ tasks[t].scored \in {"accepted", "rejected"}
  /\ PageSimilarity(tasks[t].url) > cfg.similarity_threshold

\* C17 as stated: when the caller passed an empty keyword list, every
\* rendered page with text and a similarity above the threshold is in results
C17_EmptyKeywordArgument ==
  cfg.keywords_arg = <<>> =>
    \A t \in DOMAIN tasks : RenderedAboveThreshold(t) => tasks[t].url \in ResultUrls

\* C17 amended: when the keyword list is empty after __init__ resolved it
\* (none was passed and the instructions yield none), every rendered page
\* with text and a similarity above the threshold is in results
C17_EmptyResolvedKeywords ==
  cfg.keywords = <<>> =>
    \A t \in DOMAIN tasks : RenderedAboveThreshold(t) => tasks[t].url \in ResultUrls

\* no keyword after resolution, and the page whose text names no keyword of
\* any configuration was accepted
C17_Witness ==
  /\ cfg.keywords = <<>>
  /\ \E t \in DOMAIN tasks :
       /\ RenderedAboveThreshold(t)
       /\ ExtractContent(tasks[t].html) = <<"a", "b">>
       /\ tasks[t].scored = "accepted"
       /\ tasks[t].url \in ResultUrls

\* the positions of the tokens of the call's instructions that are w once
\* lower-cased
Occurrences(w) == {i \in DOMAIN call.instructions : Lower(call.instructions[i]) = w}

FirstOccurrence(w) == CHOOSE i \in Occurrences(w) : \A j \in Occurrences(w) : i <= j

\* a comes before b: it is more frequent, or as frequent and met first
ComesBefore(a, b) ==
  \/ Cardinality(Occurrences(a)) > Cardinality(Occurrences(b))
  \/ /\ Cardinality(Occurrences(a)) = Cardinality(Occurrences(b))
     /\ FirstOccurrence(a) < FirstOccurrence(b)

\* the lower-cased tokens of the call's instructions that are alphabetic and
\* not stop words
Qualifying ==
  {w \in {Lower(call.instructions[i]) : i \in DOMAIN call.instructions} :
     IsAlpha(w) /\ w \notin StopWords}

\* C18: extract_keywords(instructions, k) returns at most k keywords, all
\* distinct, each a lower-cased token of the instructions that is alphabetic
\* and not a stop word, by descending frequency and, at equal frequency, by
\* first occurrence; it returns the empty list when no token qualifies; and
\* when the tokenizer answers these are the first k qualifying tokens of that
\* order
C18_KeywordsTopK ==
  call.fn = "extract_keywords" =>
    /\ Len(call.ret) <= call.k
    /\ \A i, j \in DOMAIN call.ret : call.ret[i] = call.ret[j] => i = j
    /\ \A i \in DOMAIN call.ret :
         call.ret[i] = Lower(call.ret[i]) /\ call.ret[i] \in Qualifying
    /\ \A i, j \in DOMAIN call.ret : i < j => ComesBefore(call.ret[i], call.ret[j])
    /\ Qualifying = {} => call.ret = <<>>
    /\ call.tokenizer_ok =>
         /\ Len(call.ret) = call.k \/ Len(call.ret) = Cardinality(Qualifying)
         /\ \A w \in Qualifying :
              (\A i \in DOMAIN call.ret : call.ret[i] # w) =>
                \A i \in DOMAIN call.ret : ComesBefore(call.ret[i], w)

\* "the find FAQ faq" with k = 2: faq, met twice, comes before find, met first
C18_Witness ==
  /\ call.fn = "extract_keywords"
  /\ call.instructions = <<W_the, W_find, W_FAQ, W_faq>>
  /\ call.k = 2
  /\ call.ret = <<W_faq, W_find>>

\* the URLs at most k links from the seed
RECURSIVE Within(_)
Within(k) ==
  IF k < 0 THEN {}
  ELSE IF k = 0 THEN {Seed}
  ELSE Within(k - 1) \cup UNION {Links(u) : u \in Within(k - 1)}

\* scrape() returned, no render failed or raised, and the page budget was
\* never reached
FinishedUnhindered ==
  /\ run_pc = "returned"
  /\ \A t \in DOMAIN tasks : ~tasks[t].nav_failed /\ tasks[t].pc = "done"
  /\ Cardinality(visited_urls) < cfg.max_pages

\* C20 as stated: when every render succeeds and the page budget is never
\* reached, every URL at most max_depth links from the seed is visited when
\* the crawl finishes
C20_AllWithinDepthVisited ==
  FinishedUnhindered => Within(cfg.max_depth) \subseteq visited_urls

\* C20 amended: when every render succeeds and the page budget is never
\* reached, the seed is visited and so is every URL linked from a page that
\* was marked visited by a task of depth below max_depth
C20_LinksOfExpandedVisited ==
  FinishedUnhindered =>
    /\ cfg.max_depth >= 0 => Seed \in visited_urls
    /\ \A t \in Entered :
         tasks[t].depth < cfg.max_depth => Links(tasks[t].url) \subseteq visited_urls

\* page 5, two links from the seed, was marked by the task of depth 3 that
\* page 4 spawned, the task of depth 2 that page 2 spawned for it returned at
\* the visited check, and page 6, three links from the seed, was not visited
C20_Witness ==
  /\ FinishedUnhindered
  /\ cfg.max_depth = 3
  /\ \E t \in Entered : tasks[t].url = 5 /\ tasks[t].depth = 3
  /\ \E t \in DOMAIN tasks : tasks[t].url = 5 /\ tasks[t].depth = 2 /\ ~tasks[t].entered
  /\ 6 \in Within(3) \ visited_urls

\* C14 as stated: after a cancellation that found results appended, the
\* results are records {url, content} of visited pages with their text, and
\* the caller of scrape() was handed them
C14_CancelReturnsPartialResults ==
  (run_pc = "cancelled" /\ results # <<>>) =>
    /\ \A i \in DOMAIN results :
         /\ results[i].url \in visited_urls
         /\ results[i].content = PageText(results[i].url)
         /\ Len(results[i].content) > 0
    /\ returned[1].state # "none"
    /\ ListValue(returned[1]) = results

\* the root of the tree of tasks t belongs to
RECURSIVE RootOf(_)
RootOf(t) == IF tasks[t].parent = 0 THEN t ELSE RootOf(tasks[t].parent)

\* the URLs the tasks of the crawl rooted at r marked visited
MarkedBy(r) == {tasks[t].url : t \in {e \in Entered : RootOf(e) = r}}

\* C13 as stated: when a second scrape() call overlaps the first one on the
\* same client, the URLs each crawl marked stay in the visited set while that
\* crawl runs (the other call does not reset it), the tasks of each crawl
\* render in the browser their own call launched, and that browser is open
\* while the call awaits its crawl (the other call does not close it)
C13_SessionsNotShared ==
  second.overlap =>
    /\ run_pc \in {"crawl", "close"} => MarkedBy(1) \subseteq visited_urls
    /\ second.pc \in {"crawl", "close"} => MarkedBy(second.root) \subseteq visited_urls
    /\ \A t \in Entered : tasks[t].br = IF RootOf(t) = 1 THEN 1 ELSE 2
    /\ run_pc = "crawl" => browser = "open"
    /\ second.pc = "crawl" => second.browser = "open"

\* the second call begins in this step, the first one having ended
SecondCallBegins == second.pc = "idle" /\ second'.pc = "launch" /\ ~second'.overlap

\* C19: when the second scrape() call is made after the first one ended, it
\* begins with an empty visited set and an empty result list; the list it
\* returns holds only pages marked visited since then and rendered in the
\* browser of the second call; and the content of the list the first call
\* returned never changes
C19_ScrapeResetsSession ==
  /\ [][SecondCallBegins => visited_urls' = {} /\ results' = <<>>]_vars
  /\ []((~second.overlap /\ second.pc = "returned") =>
          /\ ListValue(returned[2]) = results
          /\ \A i \in DOMAIN results :
               /\ results[i].url \in visited_urls
               /\ \E t \in Entered : tasks[t].url = results[i].url /\ tasks[t].br = 2)
  /\ [][(~second'.overlap /\ returned[1].state # "none") =>
           /\ returned'[1].state # "none"
           /\ ListValue(returned[1])' = ListValue(returned[1])]_vars

\* the first call returned a page, the second call, made after it, returned
\* a page too, and the first caller's list still holds the first call's page
C19_Witness ==
  /\ ~second.overlap
  /\ run_pc = "returned" /\ second.pc = "returned"
  /\ returned[1].state = "kept" /\ Len(returned[1].value) >= 1
  /\ returned[2].state = "live" /\ Len(results) >= 1
  /\ Len(tasks) >= 4

\* C15: a second crawl of the same configuration in which the same tasks
\* take the same steps with the same launch and render outcomes as in the
\* first, whatever the scorer answers in either, has after each step the
\* visited set and the tasks (their links, the tasks they spawned, their
\* place in _crawl) that the first crawl had
C15_DiscoveryIndependentOfRelevance ==
  twin.phase = "second" => twin.last = twin.log[twin.k]

\* the second crawl followed the first to its end, both visited three
\* pages and spawned the same tasks, the first crawl accepted no page and
\* the second accepted the seed
C15_Witness ==
  /\ twin.phase = "second"
  /\ twin.k = Len(twin.log)
  /\ Observed = twin.last
  /\ run_pc = "returned"
  /\ Cardinality(visited_urls) = 3
  /\ twin.results = <<>>
  /\ ResultUrls = {Seed}

\* the tasks through which task t was spawned: its parent, the parent's
\* parent, up to the root
RECURSIVE Ancestors(_)
Ancestors(t) ==
  IF tasks[t].parent = 0 THEN {}
  ELSE {tasks[t].parent} \cup Ancestors(tasks[t].parent)

\* the task that marked url and rendered it
TaskOf(url) == CHOOSE t \in Entered : tasks[t].url = url

\* the stretches of _crawl up to the end of the politeness delay
UpToDelay == {"start", "render", "sleep"}

\* C21: in one crawl, the record of an accepted page is in results from the
\* step that scored it (so before its delay and its spawn loop), the record
\* of a page precedes in results the records of the pages visited through
\* it, and a task exists, and so can be marked, only once the node that
\* spawned it has been rendered and its delay is over
C21_RecordBeforeDescendants ==
  /\ \A t \in Entered :
       tasks[t].scored = "accepted" => tasks[t].url \in ResultUrls
  /\ \A i, j \in DOMAIN results :
       TaskOf(results[i].url) \in Ancestors(TaskOf(results[j].url)) => i < j
  /\ \A c \in DOMAIN tasks :
       tasks[c].parent # 0 =>
         /\ tasks[tasks[c].parent].entered
         /\ tasks[tasks[c].parent].pc \notin UpToDelay
         /\ tasks[c].url \in tasks[tasks[c].parent].links

\* scrape() has returned two records, the seed's and then the one of a page
\* the seed linked to, and a page visited through that page was rendered and
\* not accepted
C21_Witness ==
  /\ run_pc = "returned"
  /\ Len(results) = 2
  /\ TaskOf(results[1].url) = 1
  /\ tasks[TaskOf(results[2].url)].parent = 1
  /\ \E g \in Entered :
       /\ tasks[g].parent = TaskOf(results[2].url)
       /\ tasks[g].scored = "rejected"

\* task c runs its first stretch in this step
RunsEntryChecks(c) == tasks[c].pc = "start" /\ tasks'[c].pc # "start"

\* C22: the step in which a node runs its spawn loop leaves the visited set
\* as it is and creates a task for every link the node extracted or no task
\* at all, none exactly when the budget is reached or there is no link; the
\* tasks it creates have not run; and a created task proceeds or returns on
\* the three checks of its own first stretch
C22_SpawnsAllOrNone ==
  [][/\ \A t \in DOMAIN tasks :
         RunsSpawnLoop(t) =>
           /\ visited_urls' = visited_urls
           /\ NewTasks \in {0, Cardinality(tasks[t].links)}
           /\ NewTasks = 0 <=>
                (tasks[t].links = {} \/ Cardinality(visited_urls) >= cfg.max_pages)
           /\ \A k \in 1..NewTasks :
                /\ tasks'[Len(tasks) + k].pc = "start"
                /\ ~tasks'[Len(tasks) + k].entered
     /\ \A c \in DOMAIN tasks :
         RunsEntryChecks(c) =>
           (tasks'[c].entered <=>
              /\ tasks[c].depth <= cfg.max_depth
              /\ tasks[c].url \notin visited_urls
              /\ Cardinality(visited_urls) < cfg.max_pages)]_vars

\* with one page of the budget left a node spawned a task for each of its two
\* links; one of them was marked, and the other, within the depth limit and
\* for a page not visited, returned at the page check of its first stretch
C22_Witness ==
  \E t \in Entered, c1, c2 \in DOMAIN tasks :
    /\ tasks[t].spawned = 2
    /\ tasks[t].spawned > cfg.max_pages - 1
    /\ tasks[c1].parent = t /\ tasks[c2].parent = t
    /\ tasks[c1].entered
    /\ tasks[c2].pc = "done" /\ ~tasks[c2].entered
    /\ tasks[c2].depth <= cfg.max_depth
    /\ tasks[c2].url \notin visited_urls
    /\ Cardinality(visited_urls) = cfg.max_pages

====
